---------------------------- MODULE Spec2Model ----------------------------
(***************************************************************************)
(* A model of the Uniswap V3 position manager scripts:                     *)
(*   scripts/utils/price.ts      priceToTick, tickToTokenPrice,            *)
(*                               validatePriceRange                        *)
(*   scripts/utils/position.ts   calculateOptimalAmounts,                  *)
(*                               calculateMinimumAmounts                   *)
(*   scripts/utils/validation.ts validateAddLiquidityParams,               *)
(*                               validateAdjustRangeParams                 *)
(*   scripts/addLiquidity.ts     addLiquidity   (Open)                     *)
(*   scripts/adjustRange.ts      adjustRange    (Rebalance)                *)
(*   scripts/withdrawLiquidity.ts withdrawLiquidity (Withdraw)             *)
(*   scripts/monitorPosition.ts  monitorPosition (Inspect)                 *)
(*   scripts/cli.ts              the commands add, monitor, adjust,        *)
(*                               withdraw                                  *)
(*                                                                         *)
(* Representation of numbers.                                              *)
(*  - A price is a JS number.  The model keeps its sign and, for a         *)
(*    positive price p, its position on the tick curve                     *)
(*        lg = TickScale * log_1.0001(p)                                   *)
(*    so that multiplying by 10^d is adding d * LogTen, 1/p is -lg, and    *)
(*    TickMath.getTickAtSqrtRatio(floor(sqrt(P) * 2^96)) is floor(lg /     *)
(*    TickScale).  Math.sqrt works on a 53-bit double: when the adjusted   *)
(*    price is within double resolution of a tick's ratio, the floor lands *)
(*    on either side of it, which the parameter `side` of priceToTick      *)
(*    decides.                                                             *)
(*  - A slippage tolerance is a JS double, given in basis points: bps      *)
(*    stands for the double nearest to bps / 10000.  Amounts are BigInts.  *)
(*  - A thrown Error is the record Throw(message).                         *)
(*  - A uint128 bound is a bigint, kept as its digits in base 2^16.        *)
(*  - A call on a contract is a record of its arguments and of what became *)
(*    of it: "ok", "rejected" when the send failed, "reverted" when the    *)
(*    transaction it sent reverted once mined; whether its receipt was     *)
(*    awaited; the deadline it carries and the time, in seconds from the   *)
(*    start of the invocation, at which it was sent.                       *)
(*  - A string that is read as a number is the sequence of its characters. *)
(***************************************************************************)
EXTENDS Integers, Sequences, FiniteSets, TLC

VARIABLES px, sl, vr, wf, calls, chain, oa, rb

vars == <<px, sl, vr, wf, calls, chain, oa, rb>>

---------------------------------------------------------------------------
(* Resolution and extent of the price grid                                 *)

\* sub-tick positions per tick
TickScale == 4
\* width, in ticks, of each window of adjusted prices
Span == 220

---------------------------------------------------------------------------
(* constants.ts, price.ts                                                  *)

MIN_TICK == -887272
MAX_TICK == 887272

FEE_TIERS == {500, 3000, 10000}

TICK_SPACINGS == (500 :> 10) @@ (3000 :> 60) @@ (10000 :> 200)

WETH == [symbol |-> "WETH", decimals |-> 18, addr |-> 2]
USDC == [symbol |-> "USDC", decimals |-> 6, addr |-> 1]
USDT == [symbol |-> "USDT", decimals |-> 6, addr |-> 0]

Tokens == {WETH, USDC, USDT}

\* TickScale * log_1.0001(10) = TickScale * 23027.0022...
LogTen == 23027 * TickScale + (22 * TickScale) \div 10000

---------------------------------------------------------------------------
(* Values                                                                  *)

Ok(v) == [ok |-> TRUE, val |-> v, err |-> "none"]
Throw(e) == [ok |-> FALSE, val |-> 0, err |-> e]
NoResult == [ok |-> FALSE, val |-> 0, err |-> "unset"]

\* the kind, in the error taxonomy, of a thrown message
errorKind(message) ==
  CASE message = "Lower price must be less than upper price" -> "InvalidRange"
    [] message = "Prices must be greater than 0" -> "InvalidInput"
    [] message = "Price must be greater than 0" -> "InvalidInput"
    [] OTHER -> "UnknownError"

\* a positive price at log-position lg, zero, or a negative price
Pos(lg) == [sgn |-> 1, lg |-> lg]
Zero == [sgn |-> 0, lg |-> 0]
Neg(lg) == [sgn |-> -1, lg |-> lg]

\* JS `a < b`, `a <= b`, `a >= b` on prices
PriceLess(a, b) ==
  CASE a.sgn < b.sgn -> TRUE
    [] a.sgn > b.sgn -> FALSE
    [] a.sgn = 1 -> a.lg < b.lg
    [] a.sgn = -1 -> a.lg > b.lg
    [] OTHER -> FALSE

PriceLeqZero(a) == a.sgn <= 0

\* 1 / p for p > 0
Inverse(p) == Pos(-p.lg)

\* a price given in whole and hundredths of ticks above 1
AtTick(t, hundredths) == Pos(t * TickScale + (hundredths * TickScale) \div 100)

---------------------------------------------------------------------------
(* price.ts                                                                *)

getTickSpacing(feeTier) ==
  IF feeTier \in DOMAIN TICK_SPACINGS
    THEN Ok(TICK_SPACINGS[feeTier]) ELSE Throw("Invalid fee tier")

\* TickMath.getTickAtSqrtRatio(JSBI.BigInt(Math.floor(Math.sqrt(P) * 2^96))):
\* throws SQRT_RATIO unless MIN_SQRT_RATIO <= ratio < MAX_SQRT_RATIO
getTickAtSqrtRatio(adj, side) ==
  LET tick == IF adj % TickScale = 0 /\ side = "below"
                THEN adj \div TickScale - 1 ELSE adj \div TickScale
  IN IF tick < MIN_TICK \/ tick >= MAX_TICK THEN Throw("SQRT_RATIO") ELSE Ok(tick)

\* faulty variant: truncation instead of rounding to the nearest multiple
roundToSpacing_raw(tick, tickSpacing) == tick

\* Math.round(tick / tickSpacing) * tickSpacing; Math.round is floor(x + 1/2)
roundToSpacing(tick, tickSpacing) ==
  ((2 * tick + tickSpacing) \div (2 * tickSpacing)) * tickSpacing

tickOutOfBounds(roundedTick) == roundedTick < MIN_TICK \/ roundedTick > MAX_TICK

\* new Decimal(10).pow(baseToken.decimals - quoteToken.decimals)
decimalAdjustment(baseToken, quoteToken) ==
  (baseToken.decimals - quoteToken.decimals) * LogTen

priceToTick(price, baseToken, quoteToken, feeTier, side) ==
  IF PriceLeqZero(price) THEN Throw("Price must be greater than 0")
  ELSE
    LET decimalAdjustedPrice == price.lg + decimalAdjustment(baseToken, quoteToken)
        tick == getTickAtSqrtRatio(decimalAdjustedPrice, side)
        tickSpacing == getTickSpacing(feeTier)
    IN IF ~tick.ok \/ ~tickSpacing.ok THEN Throw("Failed to convert price")
       ELSE LET roundedTick == roundToSpacing(tick.val, tickSpacing.val)
            IN IF tickOutOfBounds(roundedTick)
                 THEN Throw("Failed to convert price")
                 ELSE Ok(roundedTick)

\* feeTier: number = 500
priceToTickDefault(price, baseToken, quoteToken, side) ==
  priceToTick(price, baseToken, quoteToken, 500, side)

\* faulty variant: the decimal adjustment is left out
tickToTokenPrice_unadjusted(tick, baseToken, quoteToken) ==
  IF tick < MIN_TICK \/ tick > MAX_TICK THEN Throw("TICK_BOUND")
  ELSE Ok(Pos(tick * TickScale))

tickToTokenPrice(tick, baseToken, quoteToken) ==
  IF tick < MIN_TICK \/ tick > MAX_TICK THEN Throw("TICK_BOUND")
  ELSE Ok(Pos(tick * TickScale
              + (quoteToken.decimals - baseToken.decimals) * LogTen))

\* faulty variant: the order check is strict, equal bounds pass it
validatePriceRange_strict(desiredLowerPrice, desiredUpperPrice) ==
  IF PriceLess(desiredUpperPrice, desiredLowerPrice)
    THEN Throw("Lower price must be less than upper price")
  ELSE IF PriceLeqZero(desiredLowerPrice) \/ PriceLeqZero(desiredUpperPrice)
    THEN Throw("Prices must be greater than 0")
  ELSE Ok(TRUE)

validatePriceRange(desiredLowerPrice, desiredUpperPrice) ==
  IF ~PriceLess(desiredLowerPrice, desiredUpperPrice)
    THEN Throw("Lower price must be less than upper price")
  ELSE IF PriceLeqZero(desiredLowerPrice) \/ PriceLeqZero(desiredUpperPrice)
    THEN Throw("Prices must be greater than 0")
  ELSE Ok(TRUE)

---------------------------------------------------------------------------
(* IEEE-754 double arithmetic for Math.floor((1 - slippageTolerance) *     *)
(* 10000), slippageTolerance being the double nearest to k / 10000 with    *)
(* 0 < k < 10000.  Every double below is an integer mantissa times a power *)
(* of two; the mantissas have 53 bits, so the model carries, instead of    *)
(* each mantissa, the rounding error that the operation made, which is a   *)
(* small integer:                                                          *)
(*   s       = S * 2^-n      S = round(k * 2^n / BPS)  = (k * 2^n + d1)/BPS*)
(*   1 - s   = U * 2^-53     U = round((2^n - S) / 2^sh) = (2^n - S + d2)  *)
(*                                                          / 2^sh         *)
(*   (1 - s) * BPS, before rounding,                                       *)
(*           = U * BPS * 2^-53 = (BPS - k) + E * 2^-53,                    *)
(*                           E = (BPS * d2 - d1) / 2^sh                    *)
(* with n = z + 52, sh = z - 1 and 2^-z <= k / BPS < 2^(1-z).  round is    *)
(* to nearest, ties to even.                                               *)

\* one basis point is 1 / BPS
BPS == 10000

\* 2^n mod BPS
RECURSIVE Pow2Mod(_)
Pow2Mod(n) == IF n <= 13 THEN (2 ^ n) % BPS ELSE (Pow2Mod(n - 13) * 8192) % BPS

\* (k * 2^n) mod BPS
Rem(k, n) == (k * Pow2Mod(n)) % BPS

\* floor(k * 2^n / BPS) mod 2^w, the last w binary digits, w <= 14
LastDigits(k, n, w) == (Rem(k, n - w) * (2 ^ w)) \div BPS

\* position z of the leading binary digit of k / BPS
LeadingDigit(k) == CHOOSE z \in 1..14 : k * (2 ^ z) >= BPS /\ k * (2 ^ (z - 1)) < BPS

\* round to nearest, ties to even, of a number with fraction low / mod whose
\* integer part has the given parity: 1 when it rounds up
RoundsUp(low, mod, odd) == 2 * low > mod \/ (2 * low = mod /\ odd)

\* d1: the error of the literal, in units of 2^-n / BPS
literalError(k) ==
  LET n == LeadingDigit(k) + 52
      r == Rem(k, n)
  IN IF RoundsUp(r, BPS, LastDigits(k, n, 1) = 1) THEN BPS - r ELSE -r

\* S mod 2^w
mantissaMod(k, w) ==
  LET n == LeadingDigit(k) + 52
      up == IF literalError(k) > 0 THEN 1 ELSE 0
  IN (LastDigits(k, n, w) + up) % (2 ^ w)

\* d2: the error of 1 - s, in units of 2^-n
subtractError(k) ==
  LET sh == LeadingDigit(k) - 1
      low == (-mantissaMod(k, sh)) % (2 ^ sh)
      odd == ((-mantissaMod(k, sh + 1)) % (2 ^ (sh + 1))) >= 2 ^ sh
  IN IF sh = 0 THEN 0
     ELSE IF RoundsUp(low, 2 ^ sh, odd) THEN 2 ^ sh - low ELSE -low

\* E: (1 - s) * BPS is (BPS - k) + E * 2^-53 before it is rounded
productError(k) ==
  (BPS * subtractError(k) - literalError(k)) \div (2 ^ (LeadingDigit(k) - 1))

\* Math.floor of the double nearest to i + e * 2^-53, for an integer
\* 1 <= i < 2^14 and |e| < 2^14: the doubles next to i are 2^(b+1) * 2^-53
\* apart above it and below it, 2^b * 2^-53 below a power of two i = 2^b
floorOfProduct(i, e) ==
  LET b == CHOOSE c \in 0..13 : 2 ^ c <= i /\ i < 2 ^ (c + 1)
      gap == IF i = 2 ^ b THEN 2 ^ b ELSE 2 ^ (b + 1)
  IN IF e >= 0 \/ 2 * (-e) <= gap THEN i ELSE i - 1

\* faulty variant: the multiplier adds the tolerance
slippageMultiplier_plus(bps) == BPS + bps

\* faulty variant: the multiplier is cut to whole percents
slippageMultiplier_percent(bps) == BPS - (bps \div 100) * 100

\* Math.floor((1 - slippageTolerance) * 10000) for slippageTolerance the
\* double nearest to bps / 10000.  Multiples of 1/2 are doubles and every
\* step on them is exact.
slippageMultiplier(bps) ==
  IF bps % (BPS \div 2) = 0 THEN BPS - bps
  ELSE floorOfProduct(BPS - bps, productError(bps))

---------------------------------------------------------------------------
(* position.ts, constants.ts                                               *)

\* SLIPPAGE_TOLERANCE = 0.5, in basis points
SLIPPAGE_TOLERANCE_percent == 5000

\* SLIPPAGE_TOLERANCE = 0.005, in basis points
SLIPPAGE_TOLERANCE == 50

\* const BASE = BigInt(10000)
BASE == 10000

\* BigInt (amount * multiplier) / base for amount >= 0 and base > 0; the
\* division truncates toward zero.  Computed from the quotient and the
\* remainder of amount by base, which keeps every product small.
bigIntMulDiv(amount, multiplier, base) ==
  LET abs == IF multiplier >= 0 THEN multiplier ELSE -multiplier
      quot == (amount \div base) * abs + ((amount % base) * abs) \div base
  IN IF multiplier >= 0 THEN quot ELSE -quot

\* calculateMinimumAmounts(desiredAmount0, desiredAmount1, slippageTolerance):
\* no check of the tolerance, no throw
calculateMinimumAmounts(desiredAmount0, desiredAmount1, bps) ==
  Ok([amount0Min |-> bigIntMulDiv(desiredAmount0, slippageMultiplier(bps), BASE),
      amount1Min |-> bigIntMulDiv(desiredAmount1, slippageMultiplier(bps), BASE)])

\* slippageTolerance: number = SLIPPAGE_TOLERANCE
calculateMinimumAmountsDefault(desiredAmount0, desiredAmount1) ==
  calculateMinimumAmounts(desiredAmount0, desiredAmount1, SLIPPAGE_TOLERANCE)

---------------------------------------------------------------------------
(* State.  Each variable holds the call in progress of one concern: its    *)
(* arguments and, once the call has run, what it returned or threw.        *)

Pending(r) == r.err = "unset"

PxIdle ==
  [price |-> Zero, baseToken |-> WETH, quoteToken |-> USDC, feeTier |-> 0,
   tick |-> NoResult, back |-> NoResult, mirror |-> NoResult]

SlIdle ==
  [amount0 |-> 0, amount1 |-> 0, given |-> FALSE, bps |-> 0, out |-> NoResult]

VrIdle == [lower |-> Zero, upper |-> Zero, out |-> NoResult]

\* a call of calculateOptimalAmounts: the pool, the ticks, the size typed in,
\* the magnitudes the SDK computes, and what the call returned or threw
OaIdle ==
  [pool |-> [fee |-> 0, tickSpacing |-> 1, tickCurrent |-> 0],
   lowerTick |-> 0, upperTick |-> 0, liquidityAmount |-> << >>,
   size |-> <<0, 0>>, out |-> NoResult]

\* what positions(tokenId) returns, as far as the workflows read it
NoPosition ==
  [token0 |-> 0, token1 |-> 0, fee |-> 0, tickLower |-> 0, tickUpper |-> 0,
   liquidity |-> 0, feeGrowthInside0LastX128 |-> 0,
   feeGrowthInside1LastX128 |-> 0, tokensOwed0 |-> 0, tokensOwed1 |-> 0]

\* the options argument of withdrawLiquidity: given or omitted, and when
\* given, each field a value or undefined
NoOptions ==
  [given |-> FALSE, percentageToWithdraw |-> [defined |-> FALSE, v |-> 0],
   collectFees |-> "undefined"]

\* what is kept of the invocation of monitorPosition before the current one:
\* what it returned or threw, and how many transactions had written to the
\* position or the pool when it read them
NoEarlier == [result |-> NoResult, writes |-> 0]

\* a workflow invocation: the operation, the fee it passes, the options it
\* was given, the position it read, what it returned or threw, and the class
\* of what it threw; when a command of the CLI made the invocation, the
\* command and the exit code of its process; for monitorPosition, the number
\* of writes the chain had seen when it was read, and the invocation before;
\* for addLiquidity, the allowances the wallet had given when it was invoked
WfIdle ==
  [op |-> "none", fee |-> 0, options |-> NoOptions, position |-> NoPosition,
   result |-> NoResult, error |-> "none",
   command |-> "none", exitCode |-> [defined |-> FALSE, v |-> 0],
   writes |-> 0, earlier |-> NoEarlier, allowances |-> <<0, 0>>]

\* the chain: the position of the token id, the current tick of the pool,
\* and the number of transactions that wrote to either
ChainIdle == [position |-> NoPosition, tick |-> 0, writes |-> 0]

\* two invocations of adjustRange that run at once on one token id: where
\* each stands, the position each read, the calls each has sent, the
\* transactions sent and not yet mined, in the order they were sent, and
\* those that reverted
Invocations == {1, 2}

RbIdle ==
  [pc |-> [p \in Invocations |-> "idle"],
   position |-> [p \in Invocations |-> NoPosition],
   sent |-> [p \in Invocations |-> << >>],
   pending |-> << >>, reverted |-> {}]

---------------------------------------------------------------------------
(* priceToTick and tickToTokenPrice over windows of prices                 *)

\* the adjusted prices start at these ticks: the lower end of the tick
\* range, around price 1, a WETH/USDC price near 920, the upper end
PriceAnchors == {MIN_TICK - 2, -110, 344500, MAX_TICK - 215}

\* (base, quote)
TokenPairs == {<<WETH, USDC>>, <<USDC, WETH>>, <<USDT, USDC>>}

\* the price of base in quote whose decimal-adjusted value sits at lg
PriceAt(lg, baseToken, quoteToken) ==
  Pos(lg - decimalAdjustment(baseToken, quoteToken))

PriceInputs ==
  { [PxIdle EXCEPT !.price = PriceAt((a + o) * TickScale + f, pair[1], pair[2]),
                   !.baseToken = pair[1], !.quoteToken = pair[2],
                   !.feeTier = fee] :
      a \in PriceAnchors, o \in 0..Span, f \in 0..(TickScale - 1),
      pair \in TokenPairs, fee \in FEE_TIERS }
  \cup
  { [PxIdle EXCEPT !.price = p, !.feeTier = fee] :
      p \in {Zero, Neg(0), Pos(0)}, fee \in FEE_TIERS \cup {100} }

InitPrice ==
  /\ px \in PriceInputs
  /\ sl = SlIdle /\ vr = VrIdle /\ wf = WfIdle /\ calls = << >>
  /\ chain = ChainIdle /\ oa = OaIdle /\ rb = RbIdle

\* priceToTick(price, baseToken, quoteToken, feeTier)
PriceToTick ==
  /\ Pending(px.tick)
  /\ \E side \in {"below", "above"} :
       px' = [px EXCEPT !.tick =
                priceToTick(px.price, px.baseToken, px.quoteToken, px.feeTier, side)]
  /\ UNCHANGED <<sl, vr, wf, calls, chain, oa, rb>>

\* tickToTokenPrice(tick, baseToken, quoteToken) on the tick returned
TickToTokenPrice ==
  /\ px.tick.ok /\ Pending(px.back)
  /\ px' = [px EXCEPT !.back =
              tickToTokenPrice(px.tick.val, px.baseToken, px.quoteToken)]
  /\ UNCHANGED <<sl, vr, wf, calls, chain, oa, rb>>

\* priceToTick(1 / price, quoteToken, baseToken, feeTier)
PriceToTickInverse ==
  /\ px.tick.ok /\ ~Pending(px.back) /\ Pending(px.mirror)
  /\ \E side \in {"below", "above"} :
       px' = [px EXCEPT !.mirror =
                priceToTick(Inverse(px.price), px.quoteToken, px.baseToken,
                            px.feeTier, side)]
  /\ UNCHANGED <<sl, vr, wf, calls, chain, oa, rb>>

NextPrice == PriceToTick \/ TickToTokenPrice \/ PriceToTickInverse

SpecPrice == InitPrice /\ [][NextPrice]_vars

---------------------------------------------------------------------------
(* Properties of priceToTick and tickToTokenPrice, under SpecPrice         *)

IsMultiple(tick, tickSpacing) == tick % tickSpacing = 0

InTickBounds(tick) == MIN_TICK <= tick /\ tick <= MAX_TICK

\* C1: for every fee tier in {500, 3000, 10000} and every price > 0 for
\* which priceToTick returns a value, the returned tick is an exact multiple
\* of that fee tier's tick spacing and lies in MIN_TICK..MAX_TICK.
C1_TickAligned ==
  (px.tick.ok /\ px.feeTier \in FEE_TIERS /\ px.price.sgn = 1) =>
     /\ IsMultiple(px.tick.val, TICK_SPACINGS[px.feeTier])
     /\ InTickBounds(px.tick.val)

\* a price 20 ticks or more above the greatest multiple of 60 in bounds,
\* rounded down to it
C1_Witness ==
  /\ px.tick.ok /\ px.feeTier = 3000 /\ px.price.sgn = 1
  /\ px.tick.val = (MAX_TICK \div 60) * 60
  /\ px.price.lg + decimalAdjustment(px.baseToken, px.quoteToken)
       >= (px.tick.val + 20) * TickScale

\* the round trip's distance on the tick curve, in 1/TickScale ticks
RoundTripDistance == px.back.val.lg - px.price.lg

\* |q / p - 1| < 1%: log_1.0001(1.01) = 99.5083 and log_1.0001(0.99) =
\* -100.5084 ticks
WithinOnePercent(d) ==
  /\ 10000 * d < 995083 * TickScale
  /\ 10000 * d > -1005084 * TickScale

\* C9 as stated: for every price that priceToTick converts, both decimal
\* orderings and every fee tier, tickToTokenPrice of the tick is within 1%
\* of the price.
C9_RoundTripOnePercent ==
  (px.back.ok /\ px.feeTier \in FEE_TIERS) => WithinOnePercent(RoundTripDistance)

\* C9, amended: the round trip ends within half a tick spacing of the price,
\* which is within 1% for the fee tiers 500 and 3000 and within 100 ticks
\* (a factor 1.0001^100 < 1.0101) for the fee tier 10000.
C9_RoundTripHalfSpacing ==
  (px.back.ok /\ px.feeTier \in FEE_TIERS) =>
     /\ 2 * RoundTripDistance <= TICK_SPACINGS[px.feeTier] * TickScale
     /\ 2 * RoundTripDistance >= -(TICK_SPACINGS[px.feeTier] * TickScale)
     /\ px.feeTier \in {500, 3000} => WithinOnePercent(RoundTripDistance)

\* a WETH/USDC price converted at the fee tier 10000 and back that ends more
\* than 1% above where it started
C9_Witness ==
  /\ px.back.ok /\ px.feeTier = 10000
  /\ px.baseToken = WETH /\ px.quoteToken = USDC
  /\ ~WithinOnePercent(RoundTripDistance)
  /\ RoundTripDistance < 100 * TickScale

\* C10 as stated: for every pair (A, B), price p > 0 and fee tier,
\* priceToTick(p, A, B, fee) = -priceToTick(1/p, B, A, fee) within one tick.
C10_OrientationSymmetry ==
  (px.tick.ok /\ px.mirror.ok /\ px.feeTier \in FEE_TIERS) =>
     /\ px.tick.val + px.mirror.val <= 1
     /\ px.tick.val + px.mirror.val >= -1

---------------------------------------------------------------------------
(* calculateMinimumAmounts over every whole number of basis points         *)

Amounts == {0, 1, 1000000}

\* tolerances 0 <= s < 1 in basis points, and -0.5, 1 and 1.5
Tolerances == (0..(BPS - 1)) \cup {-(BPS \div 2), BPS, BPS + BPS \div 2}

SlippageInputs ==
  { [SlIdle EXCEPT !.amount0 = a0, !.amount1 = a1, !.given = TRUE, !.bps = s] :
      a0 \in Amounts, a1 \in Amounts, s \in Tolerances }
  \cup
  { [SlIdle EXCEPT !.amount0 = a0, !.amount1 = a1] :
      a0 \in Amounts, a1 \in Amounts }

InitSlippage ==
  /\ sl \in SlippageInputs
  /\ px = PxIdle /\ vr = VrIdle /\ wf = WfIdle /\ calls = << >>
  /\ chain = ChainIdle /\ oa = OaIdle /\ rb = RbIdle

\* calculateMinimumAmounts(amount0, amount1, slippageTolerance)
CalculateMinimumAmounts ==
  /\ Pending(sl.out) /\ sl.given
  /\ sl' = [sl EXCEPT !.out = calculateMinimumAmounts(sl.amount0, sl.amount1, sl.bps)]
  /\ UNCHANGED <<px, vr, wf, calls, chain, oa, rb>>

\* calculateMinimumAmounts(amount0, amount1)
CalculateMinimumAmountsDefault ==
  /\ Pending(sl.out) /\ ~sl.given
  /\ sl' = [sl EXCEPT !.out = calculateMinimumAmountsDefault(sl.amount0, sl.amount1)]
  /\ UNCHANGED <<px, vr, wf, calls, chain, oa, rb>>

NextSlippage == CalculateMinimumAmounts \/ CalculateMinimumAmountsDefault

SpecSlippage == InitSlippage /\ [][NextSlippage]_vars

---------------------------------------------------------------------------
(* Properties of calculateMinimumAmounts, under SpecSlippage               *)

\* the call has run with a tolerance 0 <= s < 1
RanInRange == ~Pending(sl.out) /\ sl.given /\ 0 <= sl.bps /\ sl.bps < BPS

\* C3: for all amounts >= 0 and every tolerance 0 <= s < 1 the minimums
\* returned are not negative and not above the amounts.
C3_MinimumsBounded ==
  RanInRange =>
     /\ sl.out.ok
     /\ 0 <= sl.out.val.amount0Min /\ sl.out.val.amount0Min <= sl.amount0
     /\ 0 <= sl.out.val.amount1Min /\ sl.out.val.amount1Min <= sl.amount1

\* the tolerance 0.9999 leaves nothing of 1000000
C3_Witness ==
  /\ RanInRange /\ sl.out.ok /\ sl.bps = BPS - 1
  /\ sl.amount0 = 1000000 /\ sl.out.val.amount0Min = 0

\* C4 as stated: for all amounts >= 0 and 0 <= s < 1, the minimum equals
\* the amount if and only if s = 0.
C4_EqualIffZeroTolerance ==
  RanInRange =>
     /\ (sl.out.val.amount0Min = sl.amount0) <=> (sl.bps = 0)
     /\ (sl.out.val.amount1Min = sl.amount1) <=> (sl.bps = 0)

\* C4, amended: for amounts >= 1 and a tolerance of a whole number of basis
\* points, the minimum equals the amount if and only if s = 0; the minimum
\* of the amount 0 is 0 under every tolerance.
C4_EqualIffZeroToleranceOrAmount ==
  RanInRange =>
     /\ (sl.out.val.amount0Min = sl.amount0) <=> (sl.bps = 0 \/ sl.amount0 = 0)
     /\ (sl.out.val.amount1Min = sl.amount1) <=> (sl.bps = 0 \/ sl.amount1 = 0)

\* the amount 0 with the tolerance 0.005: the minimum is the amount
C4_Witness ==
  /\ RanInRange /\ sl.bps = SLIPPAGE_TOLERANCE
  /\ sl.amount0 = 0 /\ sl.out.val.amount0Min = sl.amount0
  /\ sl.amount1 = 1 /\ sl.out.val.amount1Min < sl.amount1

\* C5 as stated: for every amount >= 0 and every tolerance of a whole number
\* of basis points, each minimum is floor(amount * (10000 - s * 10000) / 10000).
C5_ExactBasisPoints ==
  RanInRange =>
     /\ sl.out.val.amount0Min = bigIntMulDiv(sl.amount0, BPS - sl.bps, BPS)
     /\ sl.out.val.amount1Min = bigIntMulDiv(sl.amount1, BPS - sl.bps, BPS)

C7_ToleranceChecked ==
  (~Pending(sl.out) /\ sl.given) =>
     IF 0 <= sl.bps /\ sl.bps < BPS
       THEN sl.out.ok
       ELSE ~sl.out.ok /\ errorKind(sl.out.err) = "InvalidInput"

---------------------------------------------------------------------------
(* validatePriceRange over pairs of prices                                 *)

\* -100, -1, 0, 1, 100, 1700, 1800 and 1900
RangePrices ==
  {Neg(46054 * TickScale), Neg(0), Zero, Pos(0), AtTick(46054, 0),
   AtTick(74387, 55), AtTick(74959, 16), AtTick(75499, 86)}

InitRange ==
  /\ vr \in {[VrIdle EXCEPT !.lower = l, !.upper = u] :
               l \in RangePrices, u \in RangePrices}
  /\ px = PxIdle /\ sl = SlIdle /\ wf = WfIdle /\ calls = << >>
  /\ chain = ChainIdle /\ oa = OaIdle /\ rb = RbIdle

\* validatePriceRange(lower, upper)
ValidatePriceRange ==
  /\ Pending(vr.out)
  /\ vr' = [vr EXCEPT !.out = validatePriceRange(vr.lower, vr.upper)]
  /\ UNCHANGED <<px, sl, wf, calls, chain, oa, rb>>

NextRange == ValidatePriceRange

SpecRange == InitRange /\ [][NextRange]_vars

---------------------------------------------------------------------------
(* Properties of validatePriceRange, under SpecRange                       *)

---------------------------------------------------------------------------
(* Strings that are read as numbers.  A string is the sequence of its      *)
(* characters; the characters are the decimal digits, ".", "-", "e" and    *)
(* letters that no number holds.                                           *)

Digits == {"0", "1", "2", "3", "4", "5", "6", "7", "8", "9"}

AllDigits(s) == \A i \in 1..Len(s) : s[i] \in Digits

AllZeros(s) == \A i \in 1..Len(s) : s[i] = "0"

\* the index of the first c in s, Len(s) + 1 when s holds none
IndexOf(s, c) ==
  IF \E i \in 1..Len(s) : s[i] = c
    THEN CHOOSE i \in 1..Len(s) : s[i] = c /\ \A j \in 1..(i - 1) : s[j] # c
    ELSE Len(s) + 1

\* s.match(/^(-?)([0-9]*)\.?([0-9]*)$/): the sign, the whole part and the
\* fraction
decimalMatch(s) ==
  LET neg == Len(s) > 0 /\ s[1] = "-"
      unsigned == IF neg THEN Tail(s) ELSE s
      dot == IndexOf(unsigned, ".")
      whole == SubSeq(unsigned, 1, dot - 1)
      fraction == SubSeq(unsigned, dot + 1, Len(unsigned))
  IN [matches |-> AllDigits(whole) /\ AllDigits(fraction),
      neg |-> neg, whole |-> whole, fraction |-> fraction]

\* ethers.parseEther(value): the bigint BigInt(sign + whole + fraction), the
\* fraction padded to 18 digits; a bigint is its sign and its decimal digits
parseEther(value) ==
  LET m == decimalMatch(value)
  IN IF ~m.matches \/ Len(m.whole) + Len(m.fraction) = 0
       THEN Throw("invalid FixedNumber string value")
     ELSE IF \E i \in 19..Len(m.fraction) : m.fraction[i] # "0"
       THEN Throw("too many decimals for format")
     ELSE Ok([neg |-> m.neg,
              digits |-> (IF m.whole = << >> THEN << "0" >> ELSE m.whole)
                           \o [i \in 1..18 |-> IF i <= Len(m.fraction)
                                                 THEN m.fraction[i] ELSE "0"]])

\* b <= BigInt(0)
bigIntLeqZero(b) == b.neg \/ AllZeros(b.digits)

\* a StrUnsignedDecimalLiteral without its exponent: digits around at most
\* one ".", one digit at least
StrDecimalDigits(s) ==
  /\ \A i \in 1..Len(s) : s[i] \in Digits \/ s[i] = "."
  /\ \A i, j \in 1..Len(s) : s[i] = "." /\ s[j] = "." => i = j
  /\ \E i \in 1..Len(s) : s[i] \in Digits

\* a StrUnsignedDecimalLiteral: the exponent, where there is an "e", is
\* digits, one at least
StrUnsignedDecimalLiteral(s) ==
  IF \A i \in 1..Len(s) : s[i] # "e" THEN StrDecimalDigits(s)
  ELSE /\ StrDecimalDigits(SubSeq(s, 1, IndexOf(s, "e") - 1))
       /\ IndexOf(s, "e") < Len(s)
       /\ AllDigits(SubSeq(s, IndexOf(s, "e") + 1, Len(s)))

\* Number(value): NaN, or the sign of the number.  The empty string is 0;
\* the number is 0 when every digit before the exponent is
toNumber(value) ==
  IF value = << >> THEN [nan |-> FALSE, sgn |-> 0]
  ELSE IF ~StrUnsignedDecimalLiteral(IF value[1] = "-" THEN Tail(value) ELSE value)
    THEN [nan |-> TRUE, sgn |-> 0]
  ELSE IF \A i \in 1..(IndexOf(value, "e") - 1) : value[i] \in {"0", ".", "-"}
    THEN [nan |-> FALSE, sgn |-> 0]
  ELSE [nan |-> FALSE, sgn |-> IF value[1] = "-" THEN -1 ELSE 1]

---------------------------------------------------------------------------
(* validation.ts                                                           *)

\* validateAddLiquidityParams(params): the first check that fails throws
validateAddLiquidityParams(params) ==
  IF params.tokenA.addr = params.tokenB.addr
    THEN Throw("Tokens must be different")
  ELSE IF params.fee \notin FEE_TIERS
    THEN Throw("Invalid fee tier")
  ELSE IF LET amount == toNumber(params.amount) IN amount.nan \/ amount.sgn <= 0
    THEN Throw("Amount must be a positive number")
  ELSE IF params.priceLower.sgn = 0 \/ params.priceUpper.sgn = 0
    THEN Throw("Price range must be specified")
  ELSE IF ~PriceLess(params.priceLower, params.priceUpper)
    THEN Throw("Lower price must be less than upper price")
  ELSE IF PriceLeqZero(params.priceLower) \/ PriceLeqZero(params.priceUpper)
    THEN Throw("Prices must be greater than 0")
  ELSE IF params.poolAddress = "malformed"
    THEN Throw("Invalid pool address format")
  ELSE IF ~validatePriceRange(params.priceLower, params.priceUpper).ok
    THEN validatePriceRange(params.priceLower, params.priceUpper)
  ELSE IF params.priceUpper.lg \div TickScale - params.priceLower.lg \div TickScale
            < TICK_SPACINGS[params.fee]
    THEN Throw("Price range too narrow for fee tier")
  ELSE Ok(TRUE)

\* validateAdjustRangeParams(params); slippageTolerance 0 stands for an
\* absent one, which the check skips as it skips 0
validateAdjustRangeParams(params) ==
  IF params.newPriceLower.sgn = 0 \/ params.newPriceUpper.sgn = 0
    THEN Throw("Price range must be specified")
  ELSE IF ~validatePriceRange(params.newPriceLower, params.newPriceUpper).ok
    THEN validatePriceRange(params.newPriceLower, params.newPriceUpper)
  ELSE IF params.slippageTolerance # 0
            /\ (params.slippageTolerance <= 0 \/ params.slippageTolerance >= 100)
    THEN Throw("Slippage tolerance must be between 0 and 100")
  ELSE Ok(TRUE)

---------------------------------------------------------------------------
(* position.ts: calculateOptimalAmounts                                    *)

\* new Pool(tokenA, tokenB, fee, sqrtPriceX96, 0, tick): the tick spacing is
\* that of the fee
Pool(fee, tick) == [fee |-> fee, tickSpacing |-> TICK_SPACINGS[fee], tickCurrent |-> tick]

\* the invariants of new Position({pool, liquidity, tickLower, tickUpper})
Position(pool, tickLower, tickUpper) ==
  IF ~(tickLower < tickUpper) THEN Throw("Invariant failed: TICK_ORDER")
  ELSE IF ~(tickLower >= MIN_TICK /\ tickLower % pool.tickSpacing = 0)
    THEN Throw("Invariant failed: TICK_LOWER")
  ELSE IF ~(tickUpper <= MAX_TICK /\ tickUpper % pool.tickSpacing = 0)
    THEN Throw("Invariant failed: TICK_UPPER")
  ELSE Ok(TRUE)

\* position.mintAmounts: token0 alone below the range, token1 alone above
\* it, both inside; `size` stands for the magnitudes, which follow from the
\* liquidity and the square-root prices and are rounded up
mintAmounts(pool, tickLower, tickUpper, size) ==
  [amount0 |-> IF pool.tickCurrent < tickUpper THEN size[1] ELSE 0,
   amount1 |-> IF pool.tickCurrent >= tickLower THEN size[2] ELSE 0]

\* calculateOptimalAmounts without the test of the parsed size
calculateOptimalAmounts_anySize(pool, lowerTick, upperTick, liquidityAmount, size) ==
  IF lowerTick >= upperTick THEN Throw("Lower tick must be less than upper tick")
  ELSE LET liquidityBigInt == parseEther(liquidityAmount)
           position == Position(pool, lowerTick, upperTick)
           amounts == mintAmounts(pool, lowerTick, upperTick, size)
       IN IF ~liquidityBigInt.ok THEN liquidityBigInt
          ELSE IF ~position.ok THEN position
          ELSE IF amounts.amount0 <= 0 /\ amounts.amount1 <= 0
            THEN Throw("Invalid position: both token amounts are 0")
          ELSE Ok(amounts)

\* calculateOptimalAmounts without the test of the computed amounts
calculateOptimalAmounts_anyAmounts(pool, lowerTick, upperTick, liquidityAmount, size) ==
  IF lowerTick >= upperTick THEN Throw("Lower tick must be less than upper tick")
  ELSE LET liquidityBigInt == parseEther(liquidityAmount)
           position == Position(pool, lowerTick, upperTick)
           amounts == mintAmounts(pool, lowerTick, upperTick, size)
       IN IF ~liquidityBigInt.ok THEN liquidityBigInt
          ELSE IF bigIntLeqZero(liquidityBigInt.val)
            THEN Throw("Liquidity amount must be greater than 0")
          ELSE IF ~position.ok THEN position
          ELSE Ok(amounts)

\* calculateOptimalAmounts(pool, lowerTick, upperTick, liquidityAmount)
calculateOptimalAmounts(pool, lowerTick, upperTick, liquidityAmount, size) ==
  IF lowerTick >= upperTick THEN Throw("Lower tick must be less than upper tick")
  ELSE LET liquidityBigInt == parseEther(liquidityAmount)
           position == Position(pool, lowerTick, upperTick)
           amounts == mintAmounts(pool, lowerTick, upperTick, size)
       IN IF ~liquidityBigInt.ok THEN liquidityBigInt
          ELSE IF bigIntLeqZero(liquidityBigInt.val)
            THEN Throw("Liquidity amount must be greater than 0")
          ELSE IF ~position.ok THEN position
          ELSE IF amounts.amount0 <= 0 /\ amounts.amount1 <= 0
            THEN Throw("Invalid position: both token amounts are 0")
          ELSE Ok(amounts)

---------------------------------------------------------------------------
(* addLiquidity.ts, adjustRange.ts.  `calls` lists the calls made on the   *)
(* provider's contracts by the invocation, in order.  `env` holds what the *)
(* invocation does not decide: the chain's answers, the side on which each *)
(* Math.sqrt falls, failAt, the number of the call that rejects when it is  *)
(* sent (0: none does), and revertAt, the number of the call whose          *)
(* transaction reverts when it is mined (0: none does).                     *)

Undefined == [defined |-> FALSE, v |-> 0]
Num(n) == [defined |-> TRUE, v |-> n]

NoCall ==
  [fn |-> "none", token0 |-> 0, token1 |-> 0, fee |-> 0,
   tickLower |-> 0, tickUpper |-> 0,
   amount0Desired |-> Num(0), amount1Desired |-> Num(0),
   amount0Min |-> 0, amount1Min |-> 0, liquidity |-> 0,
   amount0Max |-> << 0 >>, amount1Max |-> << 0 >>, status |-> "ok",
   waited |-> FALSE, returned |-> <<0, 0>>, deadline |-> 0, sentAt |-> 0]

Call(fn) == [NoCall EXCEPT !.fn = fn]

\* 2n ** n, as the digits of a bigint in base 2^16, the least significant
\* first
bigIntPow2(n) ==
  [i \in 1..(n \div 16 + 1) |-> IF i = n \div 16 + 1 THEN 2 ^ (n % 16) ELSE 0]

\* a - 1n for a bigint a > 0n
bigIntPred(a) ==
  LET k == CHOOSE i \in 1..Len(a) : a[i] # 0 /\ \A j \in 1..(i - 1) : a[j] = 0
      borrowed == [i \in 1..Len(a) |->
                     IF i < k THEN 2 ^ 16 - 1 ELSE IF i = k THEN a[i] - 1 ELSE a[i]]
  IN IF Len(a) > 1 /\ borrowed[Len(a)] = 0
       THEN SubSeq(borrowed, 1, Len(a) - 1)
       ELSE borrowed

MaxUint128 == bigIntPred(bigIntPow2(128))

\* await contract.fn(...), the n-th call of the invocation: it rejects, or
\* it resolves to a transaction that is mined or reverts
Sent(call, n, env) ==
  [call EXCEPT !.status = IF env.failAt = n THEN "rejected"
                          ELSE IF env.revertAt = n THEN "reverted"
                          ELSE "ok"]

\* Time is counted in seconds from the start of the invocation.  env.took
\* holds how long the invocation waited for each of its first three calls;
\* what runs between two calls takes no time.  The n-th call is made at
timeOfCall(n, env) ==
  (IF n > 1 THEN env.took[1] ELSE 0) + (IF n > 2 THEN env.took[2] ELSE 0)
    + (IF n > 3 THEN env.took[3] ELSE 0)

\* BigInt(Math.floor(Date.now() / 1000) + 600)
deadlineAt(now) == now + 600

\* the n-th call of the invocation, carrying a deadline
Timed(call, deadline, n, env) ==
  [call EXCEPT !.deadline = deadline, !.sentAt = timeOfCall(n, env)]

\* await tx.wait() on the transaction that the call resolved to: the
\* invocation goes on when the transaction is mined, and not before
Waited(call) == [call EXCEPT !.waited = call.status # "rejected"]

\* faulty variant: the bounds of the collect are 2^64 - 1
collectAll_narrow ==
  [Call("collect") EXCEPT !.amount0Max = bigIntPred(bigIntPow2(64)),
                          !.amount1Max = bigIntPred(bigIntPow2(64))]

\* the collect of adjustRange and of withdrawLiquidity
collectAll == [Call("collect") EXCEPT !.amount0Max = MaxUint128,
                                      !.amount1Max = MaxUint128]

Outcome(result, made) == [result |-> result, calls |-> made]

\* withErrorHandling(operation, context): a throw of the operation is
\* rethrown as a LiquidityError, a return is passed on
withErrorHandling(outcome) ==
  [result |-> outcome.result, calls |-> outcome.calls,
   error |-> IF outcome.result.ok THEN "none" ELSE "LiquidityError"]

\* the mint of addLiquidity
openMint(params, tickLower, tickUpper, amounts, mins) ==
  [Call("mint") EXCEPT
     !.token0 = params.tokenA.addr, !.token1 = params.tokenB.addr,
     !.fee = params.fee, !.tickLower = tickLower, !.tickUpper = tickUpper,
     !.amount0Desired = Num(amounts.amount0),
     !.amount1Desired = Num(amounts.amount1),
     !.amount0Min = mins.amount0Min, !.amount1Min = mins.amount1Min]

\* the operation that addLiquidity hands to withErrorHandling
addLiquidityOperation(params, env) ==
  LET read == << Sent(Call("slot0"), 1, env) >>
      tickLower == priceToTickDefault(params.priceLower, params.tokenA,
                                      params.tokenB, env.sideLower)
      tickUpper == priceToTickDefault(params.priceUpper, params.tokenA,
                                      params.tokenB, env.sideUpper)
      amounts == calculateOptimalAmounts(Pool(params.fee, env.tick), tickLower.val,
                                         tickUpper.val, params.amount, env.size)
      mins == calculateMinimumAmounts(amounts.val.amount0, amounts.val.amount1,
                                      SLIPPAGE_TOLERANCE)
      approvedA == Append(read, Sent(Call("approve"), 2, env))
      approvedB == Append(approvedA, Sent(Call("approve"), 3, env))
      minted == Append(approvedB,
                       Waited(Sent(Timed(openMint(params, tickLower.val,
                                                  tickUpper.val, amounts.val,
                                                  mins.val),
                                         deadlineAt(timeOfCall(4, env)), 4, env),
                                   4, env)))
  IN IF env.failAt = 1 THEN Outcome(Throw("slot0 failed"), read)
     ELSE IF ~tickLower.ok THEN Outcome(tickLower, read)
     ELSE IF ~tickUpper.ok THEN Outcome(tickUpper, read)
     ELSE IF ~amounts.ok THEN Outcome(amounts, read)
     ELSE IF env.failAt = 2 THEN Outcome(Throw("approve failed"), approvedA)
     ELSE IF env.failAt = 3 THEN Outcome(Throw("approve failed"), approvedB)
     ELSE IF env.failAt = 4 THEN Outcome(Throw("mint failed"), minted)
     ELSE IF env.revertAt = 4 THEN Outcome(Throw("transaction reverted"), minted)
     ELSE Outcome(Ok(TRUE), minted)

\* addLiquidity(params): validateAddLiquidityParams throws a plain Error
\* before withErrorHandling is entered
addLiquidity(params, env) ==
  IF ~validateAddLiquidityParams(params).ok
    THEN [result |-> validateAddLiquidityParams(params), calls |-> << >>,
          error |-> "Error"]
    ELSE withErrorHandling(addLiquidityOperation(params, env))

\* the mint of adjustRange: the position read has no amount0 and no amount1
adjustMint(position, newTickLower, newTickUpper) ==
  [Call("mint") EXCEPT
     !.token0 = position.token0, !.token1 = position.token1,
     !.fee = position.fee, !.tickLower = newTickLower, !.tickUpper = newTickUpper,
     !.amount0Desired = Undefined, !.amount1Desired = Undefined]

\* the operation that adjustRange hands to withErrorHandling
adjustRangeOperation(baseToken, quoteToken, params, env) ==
  LET read == << Sent(Call("positions"), 1, env) >>
      position == env.position
      newTickLower == priceToTickDefault(params.newPriceLower, baseToken,
                                         quoteToken, env.sideLower)
      newTickUpper == priceToTickDefault(params.newPriceUpper, baseToken,
                                         quoteToken, env.sideUpper)
      deadline == deadlineAt(timeOfCall(2, env))
      decreased == Append(read,
                          Sent(Timed([Call("decreaseLiquidity") EXCEPT
                                        !.liquidity = position.liquidity],
                                     deadline, 2, env),
                               2, env))
      collected == Append(decreased,
                          Sent([collectAll EXCEPT !.returned = env.collected],
                               3, env))
      minted == Append(collected,
                       Waited(Sent(Timed(adjustMint(position, newTickLower.val,
                                                    newTickUpper.val),
                                         deadline, 4, env),
                                   4, env)))
  IN IF env.failAt = 1 THEN Outcome(Throw("positions failed"), read)
     ELSE IF ~newTickLower.ok THEN Outcome(newTickLower, read)
     ELSE IF ~newTickUpper.ok THEN Outcome(newTickUpper, read)
     ELSE IF env.failAt = 2 THEN Outcome(Throw("decreaseLiquidity failed"), decreased)
     ELSE IF env.failAt = 3 THEN Outcome(Throw("collect failed"), collected)
     ELSE IF env.failAt = 4 THEN Outcome(Throw("mint failed"), minted)
     ELSE IF env.revertAt = 4 THEN Outcome(Throw("transaction reverted"), minted)
     ELSE Outcome(Ok(TRUE), minted)

\* adjustRange(tokenId, baseToken, quoteToken, params)
adjustRange(baseToken, quoteToken, params, env) ==
  IF ~validateAdjustRangeParams(params).ok
    THEN [result |-> validateAdjustRangeParams(params), calls |-> << >>,
          error |-> "Error"]
    ELSE withErrorHandling(adjustRangeOperation(baseToken, quoteToken, params, env))

---------------------------------------------------------------------------
(* withdrawLiquidity.ts                                                    *)

\* options: WithdrawOptions = { percentageToWithdraw: 100, collectFees: true }
\* the default stands in for an omitted argument, not for an omitted field
withdrawOptions(options) ==
  IF options.given THEN options
  ELSE [given |-> TRUE, percentageToWithdraw |-> Num(100), collectFees |-> "true"]

\* a / b on bigints, b > 0n: the quotient is truncated towards zero
bigIntDiv(a, b) == IF a >= 0 THEN a \div b ELSE -((-a) \div b)

\* faulty variant: the quotient is rounded up
liquidityToWithdraw_roundedUp(position, options) ==
  bigIntDiv(position.liquidity * options.percentageToWithdraw.v + 99, 100)

\* (BigInt(position.liquidity) * BigInt(options.percentageToWithdraw!)) / 100n
liquidityToWithdraw(position, options) ==
  bigIntDiv(position.liquidity * options.percentageToWithdraw.v, 100)

\* faulty variant: the receipts of the decrease and of the collect are not
\* awaited
withdrawLiquidityOperation_unawaited(given, env) ==
  LET options == withdrawOptions(given)
      position == env.position
      read == << Sent(Call("positions"), 1, env) >>
      amount == liquidityToWithdraw(position, options)
      decreased == IF amount > 0
                     THEN Append(read,
                                 Sent(Timed([Call("decreaseLiquidity") EXCEPT
                                               !.liquidity = amount],
                                            deadlineAt(timeOfCall(2, env)), 2, env),
                                      2, env))
                     ELSE read
      collected == IF options.collectFees = "true"
                     THEN Append(decreased,
                                 Sent(collectAll, Len(decreased) + 1, env))
                     ELSE decreased
  IN IF read[1].status # "ok" THEN Outcome(Throw("positions failed"), read)
     ELSE IF ~options.percentageToWithdraw.defined
       THEN Outcome(Throw("Cannot convert undefined to a BigInt"), read)
     ELSE IF amount > 0 /\ decreased[2].status = "rejected"
       THEN Outcome(Throw("decreaseLiquidity failed"), decreased)
     ELSE IF options.collectFees = "true"
               /\ collected[Len(collected)].status = "rejected"
       THEN Outcome(Throw("collect failed"), collected)
     ELSE Outcome(Ok(TRUE), collected)

\* the operation that withdrawLiquidity hands to withErrorHandling
withdrawLiquidityOperation(given, env) ==
  LET options == withdrawOptions(given)
      position == env.position
      read == << Sent(Call("positions"), 1, env) >>
      amount == liquidityToWithdraw(position, options)
      decreased == IF amount > 0
                     THEN Append(read,
                                 Waited(Sent(Timed([Call("decreaseLiquidity") EXCEPT
                                                      !.liquidity = amount],
                                                   deadlineAt(timeOfCall(2, env)),
                                                   2, env),
                                             2, env)))
                     ELSE read
      collected == IF options.collectFees = "true"
                     THEN Append(decreased,
                                 Waited(Sent(collectAll, Len(decreased) + 1, env)))
                     ELSE decreased
  IN IF read[1].status # "ok" THEN Outcome(Throw("positions failed"), read)
     ELSE IF ~options.percentageToWithdraw.defined
       THEN Outcome(Throw("Cannot convert undefined to a BigInt"), read)
     ELSE IF amount > 0 /\ decreased[2].status = "rejected"
       THEN Outcome(Throw("decreaseLiquidity failed"), decreased)
     ELSE IF amount > 0 /\ decreased[2].status = "reverted"
       THEN Outcome(Throw("transaction reverted"), decreased)
     ELSE IF options.collectFees = "true"
               /\ collected[Len(collected)].status = "rejected"
       THEN Outcome(Throw("collect failed"), collected)
     ELSE IF options.collectFees = "true"
               /\ collected[Len(collected)].status = "reverted"
       THEN Outcome(Throw("transaction reverted"), collected)
     ELSE Outcome(Ok(TRUE), collected)

\* withdrawLiquidity(tokenId, options): nothing runs outside withErrorHandling
withdrawLiquidity(given, env) ==
  withErrorHandling(withdrawLiquidityOperation(given, env))

---------------------------------------------------------------------------
(* monitorPosition.ts                                                      *)

\* faulty variant: the owed fees are collected before the status is returned
monitorPosition_collecting(baseToken, quoteToken, env) ==
  LET position == env.position
      read == << Sent(Call("positions"), 1, env), Sent(Call("slot0"), 2, env),
                 Sent(collectAll, 3, env) >>
      currentPrice == tickToTokenPrice(env.tick, baseToken, quoteToken)
      lowerPrice == tickToTokenPrice(position.tickLower, baseToken, quoteToken)
      upperPrice == tickToTokenPrice(position.tickUpper, baseToken, quoteToken)
  IN [calls |-> read,
      result |-> Ok([liquidity |-> position.liquidity,
                     feeGrowthInside0 |-> position.feeGrowthInside0LastX128,
                     feeGrowthInside1 |-> position.feeGrowthInside1LastX128,
                     tokensOwed0 |-> position.tokensOwed0,
                     tokensOwed1 |-> position.tokensOwed1,
                     currentPrice |-> currentPrice.val,
                     lowerPrice |-> lowerPrice.val,
                     upperPrice |-> upperPrice.val]),
      error |-> "none"]

\* monitorPosition(tokenId, baseToken, quoteToken): both reads are started
\* before either is awaited; whatever is thrown is logged and thrown again
\* as it is
monitorPosition(baseToken, quoteToken, env) ==
  LET position == env.position
      read == << Sent(Call("positions"), 1, env), Sent(Call("slot0"), 2, env) >>
      currentPrice == tickToTokenPrice(env.tick, baseToken, quoteToken)
      lowerPrice == tickToTokenPrice(position.tickLower, baseToken, quoteToken)
      upperPrice == tickToTokenPrice(position.tickUpper, baseToken, quoteToken)
      thrown(e) == [calls |-> read, result |-> e, error |-> "Error"]
  IN IF read[1].status # "ok" THEN thrown(Throw("positions failed"))
     ELSE IF read[2].status # "ok" THEN thrown(Throw("slot0 failed"))
     ELSE IF ~currentPrice.ok THEN thrown(currentPrice)
     ELSE IF ~lowerPrice.ok THEN thrown(lowerPrice)
     ELSE IF ~upperPrice.ok THEN thrown(upperPrice)
     ELSE [calls |-> read,
           result |-> Ok([liquidity |-> position.liquidity,
                          feeGrowthInside0 |-> position.feeGrowthInside0LastX128,
                          feeGrowthInside1 |-> position.feeGrowthInside1LastX128,
                          tokensOwed0 |-> position.tokensOwed0,
                          tokensOwed1 |-> position.tokensOwed1,
                          currentPrice |-> currentPrice.val,
                          lowerPrice |-> lowerPrice.val,
                          upperPrice |-> upperPrice.val]),
           error |-> "none"]

---------------------------------------------------------------------------
(* The workflows, one invocation each                                      *)

\* decimal-adjusted ticks of the price bounds given to the workflows: a
\* multiple of 10, 60 and 200, a tick half way between two multiples of 10,
\* multiples of 10 alone, of 60 alone and of 200 alone, and another multiple
\* of all three
WorkflowTicks == {344400, 344405, 344430, 344460, 344600, 345000}

WorkflowPrices(baseToken, quoteToken) ==
  {PriceAt(t * TickScale, baseToken, quoteToken) : t \in WorkflowTicks}
    \cup {Zero, Neg(0)}

\* at most one call of an invocation fails: a read or a write rejects, or
\* the transaction of a write reverts
Faults ==
  {[failAt |-> n, revertAt |-> 0] : n \in 0..4}
    \cup {[failAt |-> 0, revertAt |-> n] : n \in 2..4}

\* magnitudes of the amounts of a position
Sizes == {<<1000000, 2000000>>}

\* pool ticks below, inside and above the ranges
PoolTicks == {344000, 344450, 345200}

Sides == {"below", "above"}

\* what the wallet has allowed the position manager to spend of tokenA and
\* of tokenB when addLiquidity is invoked
Allowances == {<<2000000, 2000000>>}

\* every call is answered at once
Prompt == {<<0, 0, 0>>}

OpenEnvs ==
  {[tick |-> tick, size |-> size, allowances |-> allowances,
    sideLower |-> sideLower, sideUpper |-> sideUpper, took |-> took,
    failAt |-> fault.failAt, revertAt |-> fault.revertAt] :
     took \in Prompt,
     tick \in PoolTicks, size \in Sizes, allowances \in Allowances,
     sideLower \in Sides, sideUpper \in Sides, fault \in Faults}

\* what positions(tokenId) returns
Positions ==
  {[NoPosition EXCEPT !.token0 = USDC.addr, !.token1 = WETH.addr, !.fee = f,
                      !.liquidity = l, !.tickLower = 344400,
                      !.tickUpper = 345000, !.tokensOwed0 = 7,
                      !.tokensOwed1 = 3] :
     f \in FEE_TIERS, l \in {0, 50, 1050}}

\* the amounts that the collect of a Rebalance pays out: the principal that
\* the decrease released and the fees owed
Collected == {<<500007, 1000003>>}

AdjustEnvs ==
  {[position |-> position, sideLower |-> sideLower, sideUpper |-> sideUpper,
    collected |-> collected, took |-> took,
    failAt |-> fault.failAt, revertAt |-> fault.revertAt] :
     took \in Prompt,
     position \in Positions, sideLower \in Sides, sideUpper \in Sides,
     collected \in Collected, fault \in Faults}

WithdrawEnvs ==
  {[position |-> position, took |-> took, failAt |-> fault.failAt,
    revertAt |-> fault.revertAt] :
     position \in Positions, took \in Prompt, fault \in Faults}

\* percentageToWithdraw: absent, or a number inside or outside (0, 100]
Percentages == {Undefined} \cup {Num(n) : n \in {-5, 0, 1, 50, 100, 150}}

WithdrawOptions ==
  {NoOptions}
    \cup [given : {TRUE}, percentageToWithdraw : Percentages,
          collectFees : {"true", "false", "undefined"}]

\* a read of monitorPosition rejects, or none does
InspectEnvs ==
  {[position |-> position, tick |-> tick, failAt |-> failAt, revertAt |-> 0] :
     position \in Positions, tick \in PoolTicks, failAt \in 0..2}

Init ==
  /\ wf = WfIdle /\ calls = << >>
  /\ chain = ChainIdle /\ oa = OaIdle /\ rb = RbIdle
  /\ px = PxIdle /\ sl = SlIdle /\ vr = VrIdle

\* Open: addLiquidity(params)
Open ==
  /\ wf.op = "none"
  /\ \E tokenA \in {WETH, USDC}, tokenB \in {WETH, USDC},
        fee \in FEE_TIERS \cup {100}, amount \in {<< "0" >>, << "1" >>},
        poolAddress \in {"undefined", "malformed"}, env \in OpenEnvs :
       \E priceLower \in WorkflowPrices(tokenA, tokenB),
          priceUpper \in WorkflowPrices(tokenA, tokenB) :
         LET params == [tokenA |-> tokenA, tokenB |-> tokenB, fee |-> fee,
                        amount |-> amount, priceLower |-> priceLower,
                        priceUpper |-> priceUpper, poolAddress |-> poolAddress]
             done == addLiquidity(params, env)
         IN /\ wf' = [WfIdle EXCEPT !.op = "addLiquidity", !.fee = fee,
                                     !.allowances = env.allowances,
                                     !.result = done.result,
                                     !.error = done.error]
            /\ calls' = done.calls
  /\ UNCHANGED <<px, sl, vr, chain, oa, rb>>

\* Rebalance: adjustRange(tokenId, baseToken, quoteToken, params)
Rebalance ==
  /\ wf.op = "none"
  /\ \E baseToken \in {WETH}, quoteToken \in {USDC},
        slippageTolerance \in {0, 1, 100}, env \in AdjustEnvs :
       \E newPriceLower \in WorkflowPrices(baseToken, quoteToken),
          newPriceUpper \in WorkflowPrices(baseToken, quoteToken) :
         LET params == [newPriceLower |-> newPriceLower,
                        newPriceUpper |-> newPriceUpper,
                        slippageTolerance |-> slippageTolerance]
             done == adjustRange(baseToken, quoteToken, params, env)
         IN /\ wf' = [WfIdle EXCEPT !.op = "adjustRange",
                                     !.fee = env.position.fee,
                                     !.position = env.position,
                                     !.result = done.result,
                                     !.error = done.error]
            /\ calls' = done.calls
  /\ UNCHANGED <<px, sl, vr, chain, oa, rb>>

\* Withdraw: withdrawLiquidity(tokenId, options)
Withdraw ==
  /\ wf.op = "none"
  /\ \E options \in WithdrawOptions, env \in WithdrawEnvs :
       LET done == withdrawLiquidity(options, env)
       IN /\ wf' = [WfIdle EXCEPT !.op = "withdrawLiquidity",
                                   !.fee = env.position.fee,
                                   !.options = options,
                                   !.position = env.position,
                                   !.result = done.result,
                                   !.error = done.error]
          /\ calls' = done.calls
  /\ UNCHANGED <<px, sl, vr, chain, oa, rb>>

\* Inspect: monitorPosition(tokenId, baseToken, quoteToken)
Inspect ==
  /\ wf.op = "none"
  /\ \E baseToken \in {WETH}, quoteToken \in {USDC}, env \in InspectEnvs :
       LET done == monitorPosition(baseToken, quoteToken, env)
       IN /\ wf' = [WfIdle EXCEPT !.op = "monitorPosition",
                                   !.fee = env.position.fee,
                                   !.position = env.position,
                                   !.result = done.result,
                                   !.error = done.error]
          /\ calls' = done.calls
  /\ UNCHANGED <<px, sl, vr, chain, oa, rb>>

Next == Open \/ Rebalance \/ Withdraw \/ Inspect

Spec == Init /\ [][Next]_vars

---------------------------------------------------------------------------
(* Properties of the workflows, under Spec                                 *)

\* C2 as stated: in every mint call submitted by Open or Rebalance, for
\* every accepted fee tier, tickLower and tickUpper are multiples of the tick
\* spacing of the fee tier passed in that same call and lie in
\* MIN_TICK..MAX_TICK.
C2_MintTicksAligned ==
  \A i \in 1..Len(calls) :
     (calls[i].fn = "mint" /\ calls[i].fee \in FEE_TIERS) =>
        /\ IsMultiple(calls[i].tickLower, TICK_SPACINGS[calls[i].fee])
        /\ IsMultiple(calls[i].tickUpper, TICK_SPACINGS[calls[i].fee])
        /\ InTickBounds(calls[i].tickLower)
        /\ InTickBounds(calls[i].tickUpper)

\* an invocation failed although every call it made was answered: the
\* failure is one of the workflow's own checks
FailedOnItsOwn(op) ==
  /\ wf.op = op /\ ~wf.result.ok
  /\ \A i \in 1..Len(calls) : calls[i].status = "ok"

\* C11 as stated: an Open (addLiquidity) that ends in a validation failure
\* has attempted no external call: no slot0 read, no approval, no mint.
C11_ValidationBeforeCalls ==
  FailedOnItsOwn("addLiquidity") => calls = << >>

---------------------------------------------------------------------------
(* Properties of withdrawLiquidity, under Spec                             *)

Withdrew == wf.op = "withdrawLiquidity"

Issued(fn) == {i \in 1..Len(calls) : calls[i].fn = fn}

\* the percentage the invocation was given is a number outside (0, 100]
PercentageOutside ==
  /\ wf.options.given /\ wf.options.percentageToWithdraw.defined
  /\ \/ wf.options.percentageToWithdraw.v <= 0
     \/ wf.options.percentageToWithdraw.v > 100

\* C12 as stated: Withdraw (withdrawLiquidity) fails, and issues no decrease
\* and no collect call, for every percentageToWithdraw outside (0, 100].
C12_PercentageChecked ==
  (Withdrew /\ PercentageOutside) =>
     /\ ~wf.result.ok
     /\ Issued("decreaseLiquidity") = {}
     /\ Issued("collect") = {}

\* the position was read
PositionRead ==
  Issued("positions") # {} /\ \A i \in Issued("positions") : calls[i].status = "ok"

\* the percentage in force, the default of an omitted argument included
InForce == withdrawOptions(wf.options)

\* C13 as stated: Withdraw fails, and does not return success, whenever the
\* position read has liquidity 0 and the requested percentage is non-zero.
C13_EmptyPositionRejected ==
  ( /\ Withdrew /\ PositionRead
    /\ wf.position.liquidity = 0
    /\ InForce.percentageToWithdraw.defined
    /\ InForce.percentageToWithdraw.v # 0 ) => ~wf.result.ok

\* every call the invocation made was answered and, for a write, mined
Unfaulted == \A i \in 1..Len(calls) : calls[i].status = "ok"

\* C14 as stated: Withdraw applies its defaults per field.  Called with no
\* options, or with an options object that omits percentageToWithdraw, it
\* withdraws 100% of the liquidity and completes; called with no options, or
\* with an options object that omits collectFees, it collects fees.
C14_DefaultsPerField ==
  (Withdrew /\ Unfaulted) =>
     /\ (~wf.options.given \/ ~wf.options.percentageToWithdraw.defined) =>
           /\ wf.result.ok
           /\ wf.position.liquidity > 0 =>
                 \E i \in Issued("decreaseLiquidity") :
                    calls[i].liquidity = wf.position.liquidity
     /\ (wf.result.ok /\ (~wf.options.given \/ wf.options.collectFees = "undefined"))
           => Issued("collect") # {}

\* x is the bigint 2^bits - 1: bits binary ones
AllOnes(x, bits) ==
  Len(x) * 16 = bits /\ \A i \in 1..Len(x) : x[i] = 2 ^ 16 - 1

\* what precedes the collect went through: the position was read, the amount
\* to withdraw was computed, and the decrease, if one was issued, confirmed
EarlierStepsConfirmed ==
  /\ PositionRead
  /\ InForce.percentageToWithdraw.defined
  /\ \A i \in Issued("decreaseLiquidity") : calls[i].status = "ok"

\* C15: a Withdraw invocation issues a collect call only if collectFees is
\* set; when collectFees is set and all earlier steps confirmed, it issues
\* exactly one collect call, with the bounds 2^128 - 1 for both amounts,
\* whether or not it issued a decrease call.
C15_CollectIffSet ==
  Withdrew =>
     /\ Issued("collect") # {} => InForce.collectFees = "true"
     /\ (InForce.collectFees = "true" /\ EarlierStepsConfirmed) =>
           /\ Cardinality(Issued("collect")) = 1
           /\ \A i \in Issued("collect") :
                 /\ AllOnes(calls[i].amount0Max, 128)
                 /\ AllOnes(calls[i].amount1Max, 128)

\* fees were collected by an invocation that decreased nothing
C15_Witness ==
  /\ Withdrew /\ InForce.collectFees = "true" /\ EarlierStepsConfirmed
  /\ Issued("decreaseLiquidity") = {}
  /\ Issued("collect") # {}

\* C16: withdrawLiquidity returns true only when every step it requested
\* has been confirmed, the decrease when the amount to withdraw is positive
\* and the collect when collectFees is set; if a call or a confirmation
\* fails it does not return true.
C16_TrueOnlyWhenConfirmed ==
  Withdrew =>
     /\ ~Unfaulted => ~wf.result.ok
     /\ wf.result.ok =>
           /\ liquidityToWithdraw(wf.position, InForce) > 0 =>
                 \E i \in Issued("decreaseLiquidity") : calls[i].status = "ok"
           /\ InForce.collectFees = "true" =>
                 \E i \in Issued("collect") : calls[i].status = "ok"

\* a withdrawal that decreased, collected and returned true
C16_Witness ==
  /\ Withdrew /\ wf.result.ok
  /\ Issued("decreaseLiquidity") # {} /\ Issued("collect") # {}

---------------------------------------------------------------------------
(* Properties of failures, under Spec                                      *)

\* C17 as stated: in every workflow invocation (Open, Rebalance, Withdraw),
\* once an external call fails or its confirmation reverts, the invocation
\* issues no further external call and ends by surfacing a failure instead
\* of returning success.
C17_AbortOnFailure ==
  wf.op \in {"addLiquidity", "adjustRange", "withdrawLiquidity"} =>
     \A i \in 1..Len(calls) :
        calls[i].status # "ok" => (i = Len(calls) /\ ~wf.result.ok)

\* C18 as stated: every failure surfaced by a workflow (Open, Inspect,
\* Rebalance, Withdraw), input-validation failures included, reaches the
\* caller as a LiquidityError.
C18_FailuresAreLiquidityErrors ==
  (wf.op # "none" /\ ~wf.result.ok) => wf.error = "LiquidityError"

---------------------------------------------------------------------------
(* cli.ts: the commands add, monitor, adjust and withdraw.  A command is   *)
(* the action handler of the subcommand, run in a process of its own: the  *)
(* process ends with the code given to process.exit, or with 0 when the    *)
(* handler returns.                                                        *)

\* what a command leaves: the workflow it invoked, if it got that far, what
\* the workflow returned or threw, the calls made, and the exit code
Ended(op, result, made, exitCode) ==
  [op |-> op, result |-> result, calls |-> made, exitCode |-> exitCode]

\* priceLower > 100000 || priceUpper > 100000
priceTooHigh(price) == price.sgn = 1 /\ price.lg > 5 * LogTen

\* new Pool(baseToken, quoteToken, Number(options.fee), ...), before the fee
\* is checked: the SDK knows the tier 100, of tick spacing 1, besides the
\* three of FEE_TIERS
cliPool(fee, tick) ==
  IF fee \in DOMAIN TICK_SPACINGS THEN Pool(fee, tick)
  ELSE [fee |-> fee, tickSpacing |-> 1, tickCurrent |-> tick]

\* add: every throw is caught and ends the process with code 1
cliAdd(options, env) ==
  LET read == << Sent(Call("slot0"), 1, [failAt |-> env.cliFailAt, revertAt |-> 0]) >>
      baseToken == options.pair[1]
      quoteToken == options.pair[2]
      lowerTick == priceToTickDefault(options.priceLower, baseToken, quoteToken,
                                      env.sideLower)
      upperTick == priceToTickDefault(options.priceUpper, baseToken, quoteToken,
                                      env.sideUpper)
      amounts == calculateOptimalAmounts(cliPool(options.fee, env.tick),
                                         lowerTick.val, upperTick.val,
                                         options.amount, env.size)
      params == [tokenA |-> baseToken, tokenB |-> quoteToken, fee |-> options.fee,
                 amount |-> options.amount, priceLower |-> options.priceLower,
                 priceUpper |-> options.priceUpper, poolAddress |-> "undefined"]
      done == addLiquidity(params, env)
  IN IF ~options.supported THEN Ended("none", NoResult, << >>, 1)
     ELSE IF read[1].status # "ok" THEN Ended("none", NoResult, read, 1)
     ELSE IF priceTooHigh(options.priceLower) \/ priceTooHigh(options.priceUpper)
       THEN Ended("none", NoResult, read, 1)
     ELSE IF ~lowerTick.ok \/ ~upperTick.ok THEN Ended("none", NoResult, read, 1)
     ELSE IF ~amounts.ok THEN Ended("none", NoResult, read, 1)
     ELSE IF options.dryRun THEN Ended("none", NoResult, read, 0)
     ELSE IF options.fee \notin FEE_TIERS THEN Ended("none", NoResult, read, 1)
     ELSE Ended("addLiquidity", done.result, read \o done.calls,
                IF done.result.ok THEN 0 ELSE 1)

\* monitor: every throw is caught and ends the process with code 1
cliMonitor(options, env) ==
  LET done == monitorPosition(WETH, USDC, env)
  IN IF ~options.id THEN Ended("none", NoResult, << >>, 1)
     ELSE Ended("monitorPosition", done.result, done.calls,
                IF done.result.ok THEN 0 ELSE 1)

\* adjust: the catch logs, and the handler returns
cliAdjust(options, env) ==
  LET params == [newPriceLower |-> options.lower, newPriceUpper |-> options.upper,
                 slippageTolerance |-> options.slippage]
      done == adjustRange(WETH, USDC, params, env)
  IN Ended("adjustRange", done.result, done.calls, 0)

\* withdraw: the catch logs, and the handler returns
cliWithdraw(options, env) ==
  LET given == [given |-> TRUE,
                percentageToWithdraw |-> Num(options.percentage),
                collectFees |-> IF options.fees = "true" THEN "true" ELSE "false"]
      done == withdrawLiquidity(given, env)
  IN Ended("withdrawLiquidity", done.result, done.calls, 0)

\* the options of add: the token pair, supported or not, the price bounds,
\* one of them above 100000 in some, the amount, the fee and --dry-run
AddOptions ==
  {[supported |-> supported, pair |-> pair, priceLower |-> priceLower,
    priceUpper |-> priceUpper, amount |-> amount, fee |-> fee,
    dryRun |-> dryRun] :
     supported \in BOOLEAN, pair \in {<<WETH, USDC>>, <<USDC, WETH>>},
     priceLower \in {PriceAt(344400 * TickScale, WETH, USDC), Zero},
     priceUpper \in {PriceAt(344460 * TickScale, WETH, USDC),
                     PriceAt(345000 * TickScale, WETH, USDC),
                     Pos(5 * LogTen + 1)},
     amount \in {<< "0" >>, << "1" >>}, fee \in {500, 3000, 100},
     dryRun \in BOOLEAN}

\* the answers to add: those to addLiquidity, and to the read of the command
AddEnvs ==
  {[tick |-> env.tick, size |-> env.size, allowances |-> env.allowances,
    sideLower |-> env.sideLower, sideUpper |-> env.sideUpper,
    took |-> env.took, failAt |-> env.failAt,
    revertAt |-> env.revertAt, cliFailAt |-> cliFailAt] :
     env \in {e \in OpenEnvs : e.sideLower = e.sideUpper}, cliFailAt \in 0..1}

\* -i: a number or not
MonitorOptions == [id : BOOLEAN]

AdjustOptions ==
  [lower : {PriceAt(344400 * TickScale, WETH, USDC)},
   upper : {PriceAt(344400 * TickScale, WETH, USDC),
            PriceAt(345000 * TickScale, WETH, USDC)},
   slippage : {1, 100}]

WithdrawCliOptions ==
  [percentage : {-5, 0, 50, 100, 150}, fees : {"true", "false", "yes"}]

\* the state a command leaves
Exited(command, done) ==
  /\ wf' = [WfIdle EXCEPT !.op = done.op, !.result = done.result,
                          !.command = command,
                          !.exitCode = Num(done.exitCode)]
  /\ calls' = done.calls
  /\ UNCHANGED <<px, sl, vr, chain, oa, rb>>

CliAdd ==
  /\ wf.command = "none"
  /\ \E options \in AddOptions, env \in AddEnvs :
       Exited("add", cliAdd(options, env))

CliMonitor ==
  /\ wf.command = "none"
  /\ \E options \in MonitorOptions, env \in InspectEnvs :
       Exited("monitor", cliMonitor(options, env))

CliAdjust ==
  /\ wf.command = "none"
  /\ \E options \in AdjustOptions, env \in AdjustEnvs :
       Exited("adjust", cliAdjust(options, env))

CliWithdraw ==
  /\ wf.command = "none"
  /\ \E options \in WithdrawCliOptions, env \in WithdrawEnvs :
       Exited("withdraw", cliWithdraw(options, env))

NextCli == CliAdd \/ CliMonitor \/ CliAdjust \/ CliWithdraw

SpecCli == Init /\ [][NextCli]_vars

\* C19 as stated: for each CLI subcommand (add, monitor, adjust, withdraw),
\* the process ends with a non-zero exit code whenever the underlying
\* workflow surfaces a failure, and with exit code 0 only when it succeeded.
C19_ExitCodes ==
  (wf.command # "none" /\ wf.op # "none") =>
     (wf.exitCode.v = 0 <=> wf.result.ok)

---------------------------------------------------------------------------
(* monitorPosition called again and again on a chain that other            *)
(* transactions write to                                                   *)

\* the number of writes to the position or the pool in a behaviour
MaxWrites == 2

\* positions of the token id: with and without liquidity, two ranges, with
\* and without owed fees
ChainPositions ==
  {[NoPosition EXCEPT !.token0 = USDC.addr, !.token1 = WETH.addr, !.fee = 500,
                      !.liquidity = liquidity, !.tickLower = range[1],
                      !.tickUpper = range[2], !.tokensOwed0 = owed,
                      !.tokensOwed1 = owed] :
     liquidity \in {0, 1000},
     range \in {<<344400, 345000>>, <<344460, 344600>>},
     owed \in {0, 7}}

InitInspect ==
  /\ chain \in [position : ChainPositions, tick : PoolTicks, writes : {0}]
  /\ wf = WfIdle /\ calls = << >> /\ oa = OaIdle /\ rb = RbIdle
  /\ px = PxIdle /\ sl = SlIdle /\ vr = VrIdle

\* what the chain answers to the reads of monitorPosition
Answers(failAt) ==
  [position |-> chain.position, tick |-> chain.tick, failAt |-> failAt,
   revertAt |-> 0]

\* monitorPosition(tokenId, baseToken, quoteToken), for the first time or
\* after an earlier call for the same token id
InspectChain ==
  /\ \E baseToken \in {WETH}, quoteToken \in {USDC}, failAt \in 0..2 :
       LET done == monitorPosition(baseToken, quoteToken, Answers(failAt))
       IN /\ wf' = [WfIdle EXCEPT
                      !.op = "monitorPosition", !.fee = chain.position.fee,
                      !.position = chain.position,
                      !.result = done.result, !.error = done.error,
                      !.writes = chain.writes,
                      !.earlier = IF wf.op = "monitorPosition"
                                    THEN [result |-> wf.result,
                                          writes |-> wf.writes]
                                    ELSE NoEarlier]
          /\ calls' = done.calls
  /\ UNCHANGED <<px, sl, vr, chain, oa, rb>>

\* a transaction, of this tool or of anyone, changes the position or moves
\* the pool's tick
ChainWrite ==
  /\ chain.writes < MaxWrites
  /\ \E position \in ChainPositions, tick \in PoolTicks :
       /\ position # chain.position \/ tick # chain.tick
       /\ chain' = [position |-> position, tick |-> tick,
                    writes |-> chain.writes + 1]
  /\ UNCHANGED <<px, sl, vr, wf, calls, oa, rb>>

NextInspect == InspectChain \/ ChainWrite

SpecInspect == InitInspect /\ [][NextInspect]_vars

\* two calls in succession returned, and nothing was written between them
InspectedTwice ==
  /\ wf.op = "monitorPosition"
  /\ wf.result.ok /\ wf.earlier.result.ok
  /\ wf.earlier.writes = wf.writes

---------------------------------------------------------------------------
(* calculateOptimalAmounts on its own: one call per behaviour, its         *)
(* arguments drawn from the sets below.  The magnitudes that the SDK's     *)
(* mintAmounts computes are taken as any non-negative integers.            *)

AmountTicks == {344400, 344405, 344460, 345000}

SizeInputs ==
  {<< "3", ".", "0", "0" >>, << "1" >>, << ".", "5" >>, << "1", "." >>,
   << "0" >>, << "0", ".", "0" >>, << "-", "0" >>, << "-", "1" >>,
   << >>, << "." >>, << "a" >>, << "1", "e", "3" >>, << "1", ".", "2", ".", "3" >>}

AmountSizes == {<<0, 0>>, <<0, 5>>, <<5, 0>>, <<5, 7>>}

InitAmounts ==
  /\ oa = OaIdle /\ rb = RbIdle
  /\ px = PxIdle /\ sl = SlIdle /\ vr = VrIdle
  /\ wf = WfIdle /\ calls = << >> /\ chain = ChainIdle

CalculateOptimalAmounts ==
  /\ oa.out.err = "unset"
  /\ \E fee \in FEE_TIERS, tick \in PoolTicks, lowerTick \in AmountTicks,
        upperTick \in AmountTicks, liquidityAmount \in SizeInputs,
        size \in AmountSizes :
       oa' = [pool |-> Pool(fee, tick), lowerTick |-> lowerTick,
              upperTick |-> upperTick, liquidityAmount |-> liquidityAmount,
              size |-> size,
              out |-> calculateOptimalAmounts(Pool(fee, tick), lowerTick,
                                              upperTick, liquidityAmount, size)]
  /\ UNCHANGED <<px, sl, vr, wf, calls, chain, rb>>

NextAmounts == CalculateOptimalAmounts

SpecAmounts == InitAmounts /\ [][NextAmounts]_vars

\* the call has been made
Calculated == oa.out.err # "unset"

\* the string writes a positive decimal: digits around at most one ".", one
\* of them other than 0
PositiveDecimal(s) ==
  StrDecimalDigits(s) /\ \E i \in 1..Len(s) : s[i] \in Digits \ {"0"}

Misaligned(tick, pool) == tick % pool.tickSpacing # 0

ComputedAmounts == mintAmounts(oa.pool, oa.lowerTick, oa.upperTick, oa.size)

\* C22: calculateOptimalAmounts never returns amount0 = 0 with amount1 = 0:
\* when both computed amounts are zero it throws 'Invalid position: both
\* token amounts are 0', and of every pair it returns both amounts are
\* non-negative and one is positive.
C22_NeverBothZero ==
  Calculated =>
    /\ oa.out.ok =>
         /\ oa.out.val.amount0 >= 0 /\ oa.out.val.amount1 >= 0
         /\ oa.out.val.amount0 > 0 \/ oa.out.val.amount1 > 0
    /\ (ComputedAmounts.amount0 = 0 /\ ComputedAmounts.amount1 = 0) => ~oa.out.ok

\* a call with good arguments, the price below the range, for which the SDK
\* computes no token0: it throws on the amounts
C22_Witness ==
  /\ Calculated
  /\ oa.pool.tickCurrent < oa.lowerTick
  /\ oa.size = <<0, 5>>
  /\ ComputedAmounts.amount0 = 0 /\ ComputedAmounts.amount1 = 0
  /\ oa.out.err = "Invalid position: both token amounts are 0"

\* the calls that send a transaction
WriteCalls == {"approve", "decreaseLiquidity", "collect", "mint"}

\* C23: within one invocation of Open or Rebalance, each write call
\* (approve, decreaseLiquidity, collect, mint) is sent only after the receipt
\* of the write call sent before it was awaited: no two write calls of the
\* invocation are pending together.
C23_WritesOneAtATime ==
  wf.op \in {"addLiquidity", "adjustRange"} =>
    \A i, j \in 1..Len(calls) :
      (i < j /\ calls[i].fn \in WriteCalls /\ calls[j].fn \in WriteCalls)
        => calls[i].waited

\* the liquidity read and the percentage in force
ReadLiquidity == wf.position.liquidity

PercentageInForce == InForce.percentageToWithdraw.v

\* C24: for a position read with liquidity L >= 0 and a whole percentage p,
\* 1 <= p <= 100, Withdraw passes floor(L * p / 100) as the liquidity of its
\* decrease call, which is at most L, and issues no decrease call when it is
\* 0; no invocation issues more than one decrease call.
C24_DecreaseIsFloorOfShare ==
  Withdrew =>
    /\ Cardinality(Issued("decreaseLiquidity")) <= 1
    /\ (/\ PositionRead /\ ReadLiquidity >= 0
        /\ InForce.percentageToWithdraw.defined
        /\ PercentageInForce \in 1..100)
         => /\ (ReadLiquidity * PercentageInForce) \div 100 <= ReadLiquidity
            /\ IF (ReadLiquidity * PercentageInForce) \div 100 = 0
                 THEN Issued("decreaseLiquidity") = {}
                 ELSE /\ Issued("decreaseLiquidity") # {}
                      /\ \A i \in Issued("decreaseLiquidity") :
                           calls[i].liquidity
                             = (ReadLiquidity * PercentageInForce) \div 100

\* 1% of a position of liquidity 1050: the decrease call passes 10
C24_Witness ==
  /\ Withdrew /\ PositionRead
  /\ ReadLiquidity = 1050 /\ PercentageInForce = 1
  /\ InForce.percentageToWithdraw.defined
  /\ \E i \in Issued("decreaseLiquidity") : calls[i].liquidity = 10

\* Rebalance: adjustRange was invoked
Rebalanced == wf.op = "adjustRange"

\* C25 as stated: in Rebalance, amount0Desired and amount1Desired of the
\* mint call are the amounts returned by the collect call that precedes it
\* in the invocation.
C25_MintDesiresCollected ==
  Rebalanced =>
    \A m \in Issued("mint") :
      \E c \in Issued("collect") :
        /\ c < m
        /\ calls[m].amount0Desired = Num(calls[c].returned[1])
        /\ calls[m].amount1Desired = Num(calls[c].returned[2])

\* Open: addLiquidity was invoked
Opened == wf.op = "addLiquidity"

\* the allowances of the wallet cover what the mint call requests
AllowancesCover(mint) ==
  /\ mint.amount0Desired.defined /\ mint.amount0Desired.v <= wf.allowances[1]
  /\ mint.amount1Desired.defined /\ mint.amount1Desired.v <= wf.allowances[2]

\* C26 as stated: Open reads the allowance of each token for the position
\* manager before it mints, and issues an approval call only for a token
\* whose allowance does not cover the desired amount: with allowances that
\* cover both it issues no approval call before the mint.
C26_ApproveOnlyWhenNeeded ==
  Opened =>
    \A m \in Issued("mint") :
      /\ Cardinality({i \in Issued("allowance") : i < m}) = 2
      /\ AllowancesCover(calls[m]) => \A i \in Issued("approve") : ~(i < m)

\* C27 as stated: in every mint call submitted by Open, token0 is the token
\* with the lower address and token1 the other, in whichever order tokenA
\* and tokenB were supplied.
C27_MintTokensSorted ==
  Opened => \A m \in Issued("mint") : calls[m].token0 < calls[m].token1

\* C29 as stated: Rebalance submits the decrease call only when the ticks
\* computed from the new prices satisfy newTickLower < newTickUpper: no
\* mint that follows a decrease carries an empty or inverted tick range.
C29_DecreaseOnlyForOrderedTicks ==
  Rebalanced =>
    \A m \in Issued("mint") :
      (\E i \in Issued("decreaseLiquidity") : i < m)
        => calls[m].tickLower < calls[m].tickUpper

---------------------------------------------------------------------------
(* The workflows under delay: one invocation per behaviour, with good       *)
(* arguments, in which each of the first three calls of the invocation is  *)
(* answered at once or after 400 seconds.                                   *)

Durations == {0, 400}

Delays == {<<d1, d2, d3>> : d1 \in Durations, d2 \in Durations, d3 \in Durations}

Delayed(envs) == {[env EXCEPT !.took = took] : env \in envs, took \in Delays}

InitDelayed ==
  /\ wf = WfIdle /\ calls = << >> /\ oa = OaIdle /\ rb = RbIdle
  /\ px = PxIdle /\ sl = SlIdle /\ vr = VrIdle /\ chain = ChainIdle

OpenDelayed ==
  /\ wf.op = "none"
  /\ \E tokenA \in {WETH, USDC}, fee \in FEE_TIERS, env \in Delayed(OpenEnvs) :
       LET tokenB == IF tokenA = WETH THEN USDC ELSE WETH
           params == [tokenA |-> tokenA, tokenB |-> tokenB, fee |-> fee,
                      amount |-> << "1" >>,
                      priceLower |-> PriceAt(344400 * TickScale, tokenA, tokenB),
                      priceUpper |-> PriceAt(345000 * TickScale, tokenA, tokenB),
                      poolAddress |-> "undefined"]
           done == addLiquidity(params, env)
       IN /\ wf' = [WfIdle EXCEPT !.op = "addLiquidity", !.fee = fee,
                                   !.allowances = env.allowances,
                                   !.result = done.result,
                                   !.error = done.error]
          /\ calls' = done.calls
  /\ UNCHANGED <<px, sl, vr, chain, oa, rb>>

RebalanceDelayed ==
  /\ wf.op = "none"
  /\ \E env \in Delayed(AdjustEnvs) :
       LET params == [newPriceLower |-> PriceAt(344400 * TickScale, WETH, USDC),
                      newPriceUpper |-> PriceAt(345000 * TickScale, WETH, USDC),
                      slippageTolerance |-> 1]
           done == adjustRange(WETH, USDC, params, env)
       IN /\ wf' = [WfIdle EXCEPT !.op = "adjustRange",
                                   !.fee = env.position.fee,
                                   !.position = env.position,
                                   !.result = done.result,
                                   !.error = done.error]
          /\ calls' = done.calls
  /\ UNCHANGED <<px, sl, vr, chain, oa, rb>>

WithdrawDelayed ==
  /\ wf.op = "none"
  /\ \E options \in WithdrawOptions, env \in Delayed(WithdrawEnvs) :
       LET done == withdrawLiquidity(options, env)
       IN /\ wf' = [WfIdle EXCEPT !.op = "withdrawLiquidity",
                                   !.fee = env.position.fee,
                                   !.options = options,
                                   !.position = env.position,
                                   !.result = done.result,
                                   !.error = done.error]
          /\ calls' = done.calls
  /\ UNCHANGED <<px, sl, vr, chain, oa, rb>>

NextDelayed == OpenDelayed \/ RebalanceDelayed \/ WithdrawDelayed

SpecDelayed == InitDelayed /\ [][NextDelayed]_vars

\* the calls that carry a deadline
DeadlineCalls == {"decreaseLiquidity", "mint"}

\* C30 as stated: every write call with a deadline that a workflow submits
\* (the decrease of Withdraw, the decrease and the mint of Rebalance, the
\* mint of Open) carries a deadline later than the time at which the call
\* is submitted, however long the earlier steps of the invocation took.
C30_DeadlineAfterSubmission ==
  \A i \in 1..Len(calls) :
    calls[i].fn \in DeadlineCalls => calls[i].deadline > calls[i].sentAt

---------------------------------------------------------------------------
(* Two invocations of adjustRange at once on one token id.  Each runs the  *)
(* statements of adjustRange in order; the statements of the two           *)
(* interleave freely, and the transactions they send are mined in the      *)
(* order in which they were sent.  Both are given the same good prices.    *)

RaceChains ==
  {[position |-> position, tick |-> 344450, writes |-> 0] :
     position \in Positions}

InitRace ==
  /\ rb = RbIdle /\ chain \in RaceChains
  /\ wf = WfIdle /\ calls = << >> /\ oa = OaIdle
  /\ px = PxIdle /\ sl = SlIdle /\ vr = VrIdle

\* faulty variant: an invocation reads the position only while no other
\* invocation is under way
racePositions_exclusive(p) ==
  /\ rb.pc[p] = "idle"
  /\ \A q \in Invocations \ {p} : rb.pc[q] \in {"idle", "done"}
  /\ rb' = [rb EXCEPT !.pc[p] = "read", !.position[p] = chain.position,
                      !.sent[p] = Append(@, Call("positions"))]
  /\ UNCHANGED <<px, sl, vr, wf, calls, chain, oa>>

\* const position = await positionManager.positions(tokenId)
racePositions(p) ==
  /\ rb.pc[p] = "idle"
  /\ rb' = [rb EXCEPT !.pc[p] = "read", !.position[p] = chain.position,
                      !.sent[p] = Append(@, Call("positions"))]
  /\ UNCHANGED <<px, sl, vr, wf, calls, chain, oa>>

\* the invocation sends a transaction and goes on
raceSend(p, call, next) ==
  /\ rb' = [rb EXCEPT !.pc[p] = next, !.sent[p] = Append(@, call),
                      !.pending = Append(@, [by |-> p, call |-> call])]
  /\ UNCHANGED <<px, sl, vr, wf, calls, chain, oa>>

\* await positionManager.decreaseLiquidity(tokenId, position.liquidity, ...)
raceDecrease(p) ==
  /\ rb.pc[p] = "read"
  /\ raceSend(p, [Call("decreaseLiquidity") EXCEPT
                    !.liquidity = rb.position[p].liquidity], "decreased")

\* await positionManager.collect(tokenId, wallet.address, MaxUint128, MaxUint128)
raceCollect(p) ==
  /\ rb.pc[p] = "decreased"
  /\ raceSend(p, collectAll, "collected")

\* const tx = await positionManager.mint(...)
raceMint(p) ==
  /\ rb.pc[p] = "collected"
  /\ raceSend(p, adjustMint(rb.position[p], 344400, 345000), "minted")

\* const receipt = await tx.wait(): the mint of the invocation was mined
raceWait(p) ==
  /\ rb.pc[p] = "minted"
  /\ \A i \in 1..Len(rb.pending) :
       ~(rb.pending[i].by = p /\ rb.pending[i].call.fn = "mint")
  /\ rb' = [rb EXCEPT !.pc[p] = "done"]
  /\ UNCHANGED <<px, sl, vr, wf, calls, chain, oa>>

\* the statements of adjustRange that never wait for a transaction
raceStep(p) == racePositions(p) \/ raceDecrease(p) \/ raceCollect(p) \/ raceMint(p)

\* the position manager executes the transaction sent first: a decrease of
\* no liquidity, or of more than the position holds, reverts; a collect
\* pays out what is owed; a mint makes a position under a new token id
raceMine ==
  /\ rb.pending # << >>
  /\ LET tx == Head(rb.pending)
         held == chain.position.liquidity
         reverts == /\ tx.call.fn = "decreaseLiquidity"
                    /\ tx.call.liquidity = 0 \/ tx.call.liquidity > held
     IN /\ rb' = [rb EXCEPT !.pending = Tail(@),
                            !.reverted = IF reverts
                                           THEN @ \cup {<<tx.by, tx.call.fn>>}
                                           ELSE @]
        /\ chain' =
             IF reverts THEN chain
             ELSE IF tx.call.fn = "decreaseLiquidity"
               THEN [chain EXCEPT !.position.liquidity = held - tx.call.liquidity,
                                  !.writes = @ + 1]
             ELSE IF tx.call.fn = "collect"
               THEN [chain EXCEPT !.position.tokensOwed0 = 0,
                                  !.position.tokensOwed1 = 0,
                                  !.writes = @ + 1]
             ELSE [chain EXCEPT !.writes = @ + 1]
  /\ UNCHANGED <<px, sl, vr, wf, calls, oa>>

NextRace ==
  \/ \E p \in Invocations : raceStep(p)
  \/ \E p \in Invocations : raceWait(p)
  \/ raceMine

SpecRace == InitRace /\ [][NextRace]_vars

\* the calls of the given function that the invocation has sent
SentBy(p, fn) == {i \in 1..Len(rb.sent[p]) : rb.sent[p][i].fn = fn}

\* C28: nothing excludes one invocation of Rebalance while another is under
\* way on the same token id: a statement of adjustRange that does not wait
\* for a transaction can run whatever the other invocation has done, and
\* every decrease is sent for the whole liquidity its invocation read.  So
\* both may read the same liquidity L > 0 before either decrease is mined,
\* both send a decrease of L, and both go on to collect and mint.
C28_NoMutualExclusion ==
  \A p \in Invocations :
    /\ rb.pc[p] \in {"idle", "read", "decreased", "collected"}
         => ENABLED raceStep(p)
    /\ \A i \in SentBy(p, "decreaseLiquidity") :
         rb.sent[p][i].liquidity = rb.position[p].liquidity

\* both invocations read the liquidity 1050, both sent a decrease of 1050, a
\* collect and a mint, and the decrease sent second reverted
C28_Witness ==
  /\ \A p \in Invocations :
       /\ rb.pc[p] = "done"
       /\ rb.position[p].liquidity = 1050
       /\ \E i \in SentBy(p, "decreaseLiquidity") : rb.sent[p][i].liquidity = 1050
       /\ SentBy(p, "collect") # {} /\ SentBy(p, "mint") # {}
  /\ \E p \in Invocations : <<p, "decreaseLiquidity">> \in rb.reverted

=============================================================================
